---------------------------- MODULE Spec2Model ----------------------------
(***************************************************************************)
(* orderddl (src/main.go): reorders the CREATE TABLE blocks of a DDL file  *)
(* so that every table follows the tables its foreign keys reference.      *)
(*                                                                         *)
(*   processSQL = parseDDL ; topologicalSort ; reorderDDL                  *)
(*                                                                         *)
(* The model follows one invocation of the tool line by line and loop      *)
(* iteration by loop iteration, and lets the operator invoke the tool a    *)
(* second time on the output of a successful first invocation.             *)
(*                                                                         *)
(* Text.  A line is a sequence of tokens (strings).  The tokens are the    *)
(* pieces of text the two regular expressions and the "foreign key"        *)
(* substring test tell apart: the keywords in either letter case, the      *)
(* backquote, identifiers (\w+), white space and other text.               *)
(* A Go map is a function whose DOMAIN is its key set.                     *)
(***************************************************************************)
EXTENDS Integers, Sequences, FiniteSets, TLC

\* Longest input file, in lines.
MaxLines == 4

(***************************************************************************)
(* Tokens                                                                  *)
(***************************************************************************)
\* (?i)CREATE TABLE<space> of TABLE_PATTERN
CreateKw == {"CREATE TABLE ", "create table "}

\* (?i)REFERENCES<space> of REFERENCES_PATTERN
ReferencesKw == {"REFERENCES ", "references "}

\* the texts whose strings.ToLower contains "foreign key"
ForeignKeyKw == {"FOREIGN KEY ", "foreign key "}

\* texts that strings.TrimSpace removes at either end of a line
WhiteSpace == {"  "}

\* the identifier quote both patterns allow on either side of the name
Quote == "<bq>"

\* the tokens (\w+) captures: table names; "A" and "a" are different names
Words == {"a", "b", "c", "A"}

\* The lines an input file is made of: a comment that mentions a reference
\* (no CREATE TABLE, no "foreign key"), the first lines of tables a, b and c,
\* table c written on one line with its foreign key to b, and foreign keys
\* to a, to b and to A, a table no line creates.
LineShapes ==
  { <<"-- ", "REFERENCES ", "b", " below">>,
    <<"CREATE TABLE ", Quote, "a", Quote, " (">>,
    <<"create table ", "b", " (">>,
    <<"  ", "CREATE TABLE ", "c", " (">>,
    <<"CREATE TABLE ", "c", " (", "FOREIGN KEY ", "(y) ", "REFERENCES ", "b", "(id));">>,
    <<"  ", "FOREIGN KEY ", "(x) ", "REFERENCES ", Quote, "a", Quote, "(id)">>,
    <<"  ", "foreign key ", "(y) ", "references ", "b", "(id)", "  ">>,
    <<"FOREIGN KEY ", "(z) ", "REFERENCES ", "A", "(id)">> }

\* Input files: every sequence of at most MaxLines lines.
Inputs == UNION { [1..n -> LineShapes] : n \in 0..MaxLines }

(***************************************************************************)
(* Text functions                                                          *)
(***************************************************************************)
\* strings.TrimSpace: the line without its leading and trailing white space
TrimSpace(line) ==
  LET keep == { i \in 1..Len(line) : line[i] \notin WhiteSpace }
  IN  IF keep = {} THEN <<>>
      ELSE LET lo == CHOOSE i \in keep : \A j \in keep : i <= j
               hi == CHOOSE i \in keep : \A j \in keep : j <= i
           IN  SubSeq(line, lo, hi)

\* regexp FindStringSubmatch for  kw `?(\w+)`?  : the name captured by the
\* leftmost match, "" when the line has no match (len(matches) <= 1).
FindSubmatch(kw, line) ==
  LET nameAt(i) == IF i + 1 <= Len(line) /\ line[i + 1] \in Words THEN line[i + 1]
                   ELSE IF /\ i + 2 <= Len(line)
                           /\ line[i + 1] = Quote
                           /\ line[i + 2] \in Words THEN line[i + 2]
                   ELSE ""
      hits == { i \in 1..Len(line) : line[i] \in kw /\ nameAt(i) # "" }
  IN  IF hits = {} THEN ""
      ELSE nameAt(CHOOSE i \in hits : \A j \in hits : i <= j)

\* reCreateTable.FindStringSubmatch(line)
MatchCreateTable(line) == FindSubmatch(CreateKw, line)

\* reReferences.FindStringSubmatch(line)
MatchReferences(line) == FindSubmatch(ReferencesKw, line)

\* strings.Contains(strings.ToLower(line), "foreign key")
ContainsForeignKey(line) == \E i \in 1..Len(line) : line[i] \in ForeignKeyKw

(***************************************************************************)
(* Maps                                                                    *)
(***************************************************************************)
\* make(map[string]...)
EmptyMap == [k \in {} |-> 0]

\* m[k] = v
MapPut(m, k, v) == [x \in DOMAIN m \cup {k} |-> IF x = k THEN v ELSE m[x]]

\* m[k] of a map of slices: nil (the empty slice) for an absent key
MapGetSeq(m, k) == IF k \in DOMAIN m THEN m[k] ELSE <<>>

\* m[k] of a map of ints: 0 for an absent key
MapGetInt(m, k) == IF k \in DOMAIN m THEN m[k] ELSE 0

(***************************************************************************)
(* State                                                                   *)
(***************************************************************************)
VARIABLES
  input,         \* the lines of the file named by -i
  run,           \* 1: the invocation on the given input, 2: on its own output
  firstOut,      \* the output file the first invocation left (<<>> during it)
  pc,            \* where the process is
  exitCode,      \* -1 while the process runs, then the os.Exit / return code
  diag,          \* the message printed at the end ("" while running)
  pos,           \* lines the current bufio.Scanner has delivered
  graph,         \* parent -> dependents, in order of declaration
  inDegree,      \* table -> foreign keys not yet resolved
  tableOrder,    \* tables in order of appearance
  currentTable,  \* the table whose block the scan is in ("" before the first)
  queue,         \* topologicalSort: tables ready to be ordered
  sortedTables,  \* topologicalSort: the order built so far
  ddlContent,    \* reorderDDL: table -> its block (a sequence of lines)
  currentDDL,    \* reorderDDL: the block being accumulated
  wi,            \* reorderDDL: tables of sortedTables the output loop has passed
  buffered,      \* lines held by the bufio.Writer
  outFile,       \* lines in the output file
  outCreated,    \* os.Create has created or truncated the output file
  handles,       \* files opened and not closed
  ioErr          \* the I/O failures the environment has produced so far

vars == << input, run, firstOut, pc, exitCode, diag, pos, graph, inDegree,
           tableOrder, currentTable, queue, sortedTables, ddlContent,
           currentDDL, wi, buffered, outFile, outCreated, handles, ioErr >>

\* The variables of one invocation, as main finds them.
Fresh ==
  /\ pc = "parseOpen"
  /\ exitCode = -1
  /\ diag = ""
  /\ pos = 0
  /\ graph = EmptyMap
  /\ inDegree = EmptyMap
  /\ tableOrder = <<>>
  /\ currentTable = ""
  /\ queue = <<>>
  /\ sortedTables = <<>>
  /\ ddlContent = EmptyMap
  /\ currentDDL = <<>>
  /\ wi = 0
  /\ buffered = <<>>
  /\ outFile = <<>>
  /\ outCreated = FALSE
  /\ handles = {}

Init ==
  /\ input \in Inputs
  /\ run = 1
  /\ firstOut = <<>>
  /\ ioErr = {}
  /\ Fresh

\* os.Exit(code) after printing msg: deferred calls do not run
Exit(code, msg) ==
  /\ pc' = "exited"
  /\ exitCode' = code
  /\ diag' = msg

(***************************************************************************)
(* processSQL: the order of the three stages                               *)
(***************************************************************************)
\* a variant of processSQL that writes the output before it sorts
processSQLWriteFirst(stage) ==
  CASE stage = "parseDDL" -> "reorderOpen"
    [] stage = "reorderDDL" -> "seed"
    [] stage = "topologicalSort" -> "return"

\* where control goes when the named stage returns ("return": to main, which
\* returns in turn and the process ends with code 0)
processSQL(stage) ==
  CASE stage = "parseDDL" -> "seed"
    [] stage = "topologicalSort" -> "reorderOpen"
    [] stage = "reorderDDL" -> "return"

\* the stage returns: control passes to the next one
Return(stage) ==
  LET to == processSQL(stage)
  IN  IF to = "return"
        THEN /\ pc' = "exited"
             /\ exitCode' = 0
        ELSE /\ pc' = to
             /\ UNCHANGED exitCode

(***************************************************************************)
(* parseDDL                                                                *)
(***************************************************************************)
\* a variant of RegisterGraph that starts the table's list afresh every time
RegisterGraphAfresh(g, t) == MapPut(g, t, <<>>)

\* a variant of RegisterInDegree that starts the table's count afresh every time
RegisterInDegreeAfresh(d, t) == MapPut(d, t, 0)

\* lines 50-55: a table gets its graph entry and its in-degree at first sight
RegisterGraph(g, t) == IF t \in DOMAIN g THEN g ELSE MapPut(g, t, <<>>)

RegisterInDegree(d, t) == IF t \in DOMAIN d THEN d ELSE MapPut(d, t, 0)

\* line 64: graph[parentTable] = append(graph[parentTable], currentTable)
AddEdge(g, parent, child) == MapPut(g, parent, Append(MapGetSeq(g, parent), child))

\* a variant of EdgeDeclared that does not ask for a current table
EdgeDeclaredAnywhere(line, cur) ==
  ContainsForeignKey(line) /\ MatchReferences(line) # ""

\* lines 59-63: the line declares a foreign key of the current table
EdgeDeclared(line, cur) ==
  ContainsForeignKey(line) /\ MatchReferences(line) # "" /\ cur # ""

\* a variant of IncrInDegree that marks the table as dependent, once
IncrInDegreeOnce(d, child) == MapPut(d, child, 1)

\* line 65: inDegree[currentTable]++
IncrInDegree(d, child) == MapPut(d, child, MapGetInt(d, child) + 1)

\* os.Open(ddlFile) fails
ParseOpenFail ==
  /\ pc = "parseOpen"
  /\ ioErr' = ioErr \cup {"parse: open"}
  /\ Exit(1, "parse: open")
  /\ UNCHANGED << input, run, firstOut, pos, graph, inDegree, tableOrder,
                  currentTable, queue, sortedTables, ddlContent, currentDDL, wi,
                  buffered, outFile, outCreated, handles >>

\* os.Open(ddlFile) succeeds; defer file.Close()
ParseOpen ==
  /\ pc = "parseOpen"
  /\ pc' = "parseScan"
  /\ handles' = handles \cup {"parseDDL.file"}
  /\ pos' = 0
  /\ UNCHANGED << input, run, firstOut, exitCode, diag, graph, inDegree,
                  tableOrder, currentTable, queue, sortedTables, ddlContent,
                  currentDDL, wi, buffered, outFile, outCreated, ioErr >>

\* one iteration of the scan loop, lines 42-69
ParseLine ==
  /\ pc = "parseScan"
  /\ pos < Len(input)
  /\ LET line == TrimSpace(input[pos + 1])
         created == MatchCreateTable(line)
         cur == IF created # "" THEN created ELSE currentTable
         g1 == IF created # "" THEN RegisterGraph(graph, created) ELSE graph
         d1 == IF created # "" THEN RegisterInDegree(inDegree, created) ELSE inDegree
         parentTable == MatchReferences(line)
         edge == EdgeDeclared(line, cur)
     IN  /\ currentTable' = cur
         /\ tableOrder' = IF created # "" THEN Append(tableOrder, created)
                                           ELSE tableOrder
         /\ graph' = IF edge THEN AddEdge(g1, parentTable, cur) ELSE g1
         /\ inDegree' = IF edge THEN IncrInDegree(d1, cur) ELSE d1
  /\ pos' = pos + 1
  /\ UNCHANGED << input, run, firstOut, pc, exitCode, diag, queue, sortedTables,
                  ddlContent, currentDDL, wi, buffered, outFile, outCreated,
                  handles, ioErr >>

\* scanner.Scan() stops on a read error: lines 71-74
ParseReadError ==
  /\ pc = "parseScan"
  /\ ioErr' = ioErr \cup {"parse: read"}
  /\ Exit(1, "parse: read")
  /\ UNCHANGED << input, run, firstOut, pos, graph, inDegree, tableOrder,
                  currentTable, queue, sortedTables, ddlContent, currentDDL, wi,
                  buffered, outFile, outCreated, handles >>

\* end of file: parseDDL returns and its deferred file.Close() runs
ParseReturn ==
  /\ pc = "parseScan"
  /\ pos = Len(input)
  /\ handles' = handles \ {"parseDDL.file"}
  /\ currentTable' = ""
  /\ Return("parseDDL")
  /\ UNCHANGED << input, run, firstOut, diag, pos, graph, inDegree, tableOrder, queue,
                  sortedTables, ddlContent, currentDDL, wi, buffered, outFile,
                  outCreated, ioErr >>

(***************************************************************************)
(* topologicalSort                                                         *)
(***************************************************************************)
\* a variant of Orders in which the seeding loop stops at the first table found
OrdersFirstOnly(S) == IF S = {} THEN { <<>> } ELSE { << t >> : t \in S }

\* the orders in which  for table, degree := range inDegree  can visit the
\* tables in S: Go leaves the iteration order of a map unspecified
Orders(S) ==
  { f \in [1..Cardinality(S) -> S] : \A i, j \in DOMAIN f : f[i] = f[j] => i = j }

\* a variant of AppendSorted that builds the order back to front
AppendSortedFront(sorted, current) == << current >> \o sorted

\* line 95: sortedTables = append(sortedTables, current)
AppendSorted(sorted, current) == Append(sorted, current)

\* a variant of Relax that enqueues a dependent at every decrement
RECURSIVE RelaxEager(_, _, _)
RelaxEager(dependents, d, q) ==
  IF dependents = <<>> THEN << d, q >>
  ELSE LET dependent == Head(dependents)
           d1 == MapPut(d, dependent, MapGetInt(d, dependent) - 1)
       IN  RelaxEager(Tail(dependents), d1, Append(q, dependent))

\* a variant of Relax that puts a ready dependent at the head of the queue
RECURSIVE RelaxFront(_, _, _)
RelaxFront(dependents, d, q) ==
  IF dependents = <<>> THEN << d, q >>
  ELSE LET dependent == Head(dependents)
           d1 == MapPut(d, dependent, MapGetInt(d, dependent) - 1)
       IN  RelaxFront(Tail(dependents), d1,
                      IF d1[dependent] = 0 THEN << dependent >> \o q ELSE q)

\* lines 97-102: every dependent loses one unresolved key and is enqueued
\* when none is left; the result is the pair << inDegree, queue >>
RECURSIVE Relax(_, _, _)
Relax(dependents, d, q) ==
  IF dependents = <<>> THEN << d, q >>
  ELSE LET dependent == Head(dependents)
           d1 == MapPut(d, dependent, MapGetInt(d, dependent) - 1)
       IN  Relax(Tail(dependents), d1,
                 IF d1[dependent] = 0 THEN Append(q, dependent) ELSE q)

\* a variant of CycleDetected that accepts an order that is too short
CycleDetectedLonger(sorted, g) == Len(sorted) > Cardinality(DOMAIN g)

\* a variant of Dequeue that leaves the head in the queue
DequeueKeeps(q) == q

\* line 94: queue = queue[1:]
Dequeue(q) == Tail(q)

\* line 106: len(sortedTables) != len(graph)
CycleDetected(sorted, g) == Len(sorted) # Cardinality(DOMAIN g)

\* lines 85-89: the tables of in-degree 0 enter the queue, in map order
Seed ==
  /\ pc = "seed"
  /\ \E order \in Orders({ t \in DOMAIN inDegree : inDegree[t] = 0 }) :
        queue' = order
  /\ sortedTables' = <<>>
  /\ pc' = "sortLoop"
  /\ UNCHANGED << input, run, firstOut, exitCode, diag, pos, graph, inDegree,
                  tableOrder, currentTable, ddlContent, currentDDL, wi, buffered,
                  outFile, outCreated, handles, ioErr >>

\* one iteration of the loop of lines 92-103
SortStep ==
  /\ pc = "sortLoop"
  /\ Len(queue) > 0
  /\ LET current == queue[1]
         r == Relax(MapGetSeq(graph, current), inDegree, Dequeue(queue))
     IN  /\ sortedTables' = AppendSorted(sortedTables, current)
         /\ inDegree' = r[1]
         /\ queue' = r[2]
  /\ UNCHANGED << input, run, firstOut, pc, exitCode, diag, pos, graph,
                  tableOrder, currentTable, ddlContent, currentDDL, wi, buffered,
                  outFile, outCreated, handles, ioErr >>

\* lines 105-109: the queue is empty and some graph entry was never ordered
SortCycleError ==
  /\ pc = "sortLoop"
  /\ Len(queue) = 0
  /\ CycleDetected(sortedTables, graph)
  /\ Exit(1, "sort: cycle")
  /\ UNCHANGED << input, run, firstOut, pos, graph, inDegree, tableOrder,
                  currentTable, queue, sortedTables, ddlContent, currentDDL, wi,
                  buffered, outFile, outCreated, handles, ioErr >>

\* line 111: return sortedTables
SortReturn ==
  /\ pc = "sortLoop"
  /\ Len(queue) = 0
  /\ ~CycleDetected(sortedTables, graph)
  /\ Return("topologicalSort")
  /\ UNCHANGED << input, run, firstOut, diag, pos, graph, inDegree, tableOrder,
                  currentTable, queue, sortedTables, ddlContent, currentDDL, wi,
                  buffered, outFile, outCreated, handles, ioErr >>

(***************************************************************************)
(* reorderDDL                                                              *)
(***************************************************************************)
\* line 134: ddlContent[currentTable] = currentDDL.String()
Seal(content, table, ddl) == MapPut(content, table, ddl)

\* a variant of Reset that keeps the text of the block just sealed
ResetKeeps(ddl) == ddl

\* line 135: currentDDL.Reset()
Reset(ddl) == <<>>

\* a variant of InBlock that is true of every line
InBlockAlways(cur) == TRUE

\* line 140: currentTable != "", a block is open
InBlock(cur) == cur # ""

\* a variant of SealLast that forgets the block open at the end of the file
SealLastForgotten(content, table, ddl) == content

\* a variant of WriteLine that stores the line as parseDDL reads it, trimmed
WriteLineTrimmed(ddl, line) == Append(ddl, TrimSpace(line))

\* line 141: currentDDL.WriteString(line + "\n")
WriteLine(ddl, line) == Append(ddl, line)

\* lines 145-148: the block open at the end of the scan is sealed
SealLast(content, table, ddl) ==
  IF table # "" THEN Seal(content, table, ddl) ELSE content

\* os.Open(inputDDL) fails
ReorderOpenFail ==
  /\ pc = "reorderOpen"
  /\ ioErr' = ioErr \cup {"reorder: open"}
  /\ Exit(1, "reorder: open")
  /\ UNCHANGED << input, run, firstOut, pos, graph, inDegree, tableOrder,
                  currentTable, queue, sortedTables, ddlContent, currentDDL, wi,
                  buffered, outFile, outCreated, handles >>

\* os.Open(inputDDL) succeeds; defer file.Close()
ReorderOpen ==
  /\ pc = "reorderOpen"
  /\ pc' = "reorderScan"
  /\ handles' = handles \cup {"reorderDDL.file"}
  /\ pos' = 0
  /\ currentTable' = ""
  /\ currentDDL' = <<>>
  /\ ddlContent' = EmptyMap
  /\ UNCHANGED << input, run, firstOut, exitCode, diag, graph, inDegree,
                  tableOrder, queue, sortedTables, wi, buffered, outFile,
                  outCreated, ioErr >>

\* one iteration of the scan loop, lines 129-143
ReorderLine ==
  /\ pc = "reorderScan"
  /\ pos < Len(input)
  /\ LET line == input[pos + 1]
         created == MatchCreateTable(line)
         seal == created # "" /\ currentTable # ""
         ddl1 == IF seal THEN Reset(currentDDL) ELSE currentDDL
         cur == IF created # "" THEN created ELSE currentTable
     IN  /\ ddlContent' = IF seal THEN Seal(ddlContent, currentTable, currentDDL)
                                  ELSE ddlContent
         /\ currentTable' = cur
         /\ currentDDL' = IF InBlock(cur) THEN WriteLine(ddl1, line) ELSE ddl1
  /\ pos' = pos + 1
  /\ UNCHANGED << input, run, firstOut, pc, exitCode, diag, graph, inDegree,
                  tableOrder, queue, sortedTables, wi, buffered, outFile,
                  outCreated, handles, ioErr >>

\* the loop ends and the last block is sealed, lines 145-148
EndScan ==
  /\ pc' = "create"
  /\ ddlContent' = SealLast(ddlContent, currentTable, currentDDL)
  /\ UNCHANGED << input, run, firstOut, exitCode, diag, pos, graph, inDegree,
                  tableOrder, currentTable, queue, sortedTables, currentDDL, wi,
                  buffered, outFile, outCreated, handles >>

\* scanner.Scan() returns false at the end of the file
ReorderEOF ==
  /\ pc = "reorderScan"
  /\ pos = Len(input)
  /\ EndScan
  /\ UNCHANGED ioErr

\* scanner.Scan() returns false on a read error; scanner.Err() is not read
ReorderReadError ==
  /\ pc = "reorderScan"
  /\ ioErr' = ioErr \cup {"reorder: read"}
  /\ EndScan

\* os.Create(outputDDL) fails, lines 152-155
CreateFail ==
  /\ pc = "create"
  /\ ioErr' = ioErr \cup {"reorder: create"}
  /\ Exit(1, "reorder: create")
  /\ UNCHANGED << input, run, firstOut, pos, graph, inDegree, tableOrder,
                  currentTable, queue, sortedTables, ddlContent, currentDDL, wi,
                  buffered, outFile, outCreated, handles >>

\* os.Create(outputDDL) succeeds; defer outputFile.Close(); bufio.NewWriter
Create ==
  /\ pc = "create"
  /\ pc' = "write"
  /\ outCreated' = TRUE
  /\ outFile' = <<>>
  /\ buffered' = <<>>
  /\ wi' = 0
  /\ handles' = handles \cup {"reorderDDL.outputFile"}
  /\ UNCHANGED << input, run, firstOut, exitCode, diag, pos, graph, inDegree,
                  tableOrder, currentTable, queue, sortedTables, ddlContent,
                  currentDDL, ioErr >>

\* one iteration of the output loop, lines 159-167.  writer.WriteString keeps
\* the block in its buffer, or (the buffer being full) writes through to the
\* file; a table without a block is skipped.
WriteBlock ==
  /\ pc = "write"
  /\ wi < Len(sortedTables)
  /\ LET table == sortedTables[wi + 1]
     IN  IF table \in DOMAIN ddlContent
           THEN \E through \in BOOLEAN :
                  IF through
                    THEN /\ outFile' = outFile \o buffered \o ddlContent[table]
                         /\ buffered' = <<>>
                    ELSE /\ buffered' = buffered \o ddlContent[table]
                         /\ UNCHANGED outFile
           ELSE UNCHANGED << buffered, outFile >>
  /\ wi' = wi + 1
  /\ UNCHANGED << input, run, firstOut, pc, exitCode, diag, pos, graph, inDegree,
                  tableOrder, currentTable, queue, sortedTables, ddlContent,
                  currentDDL, outCreated, handles, ioErr >>

\* writer.WriteString writes through and the file write fails, lines 162-165
WriteError ==
  /\ pc = "write"
  /\ wi < Len(sortedTables)
  /\ sortedTables[wi + 1] \in DOMAIN ddlContent
  /\ ioErr' = ioErr \cup {"reorder: write"}
  /\ Exit(1, "reorder: write")
  /\ UNCHANGED << input, run, firstOut, pos, graph, inDegree, tableOrder,
                  currentTable, queue, sortedTables, ddlContent, currentDDL, wi,
                  buffered, outFile, outCreated, handles >>

\* lines 168-171: writer.Flush(), the success message, and the return that
\* runs both deferred Close calls
Finish ==
  /\ pc = "write"
  /\ wi = Len(sortedTables)
  /\ buffered' = <<>>
  /\ diag' = "reorder: ok"
  /\ handles' = handles \ {"reorderDDL.file", "reorderDDL.outputFile"}
  /\ Return("reorderDDL")
  /\ UNCHANGED << input, run, firstOut, pos, graph, inDegree, tableOrder,
                  currentTable, queue, sortedTables, ddlContent, currentDDL, wi,
                  outCreated >>

\* writer.Flush() writes the buffer to the file
Flush ==
  /\ Finish
  /\ outFile' = outFile \o buffered
  /\ UNCHANGED ioErr

\* writer.Flush() fails: its error is not read, the buffer is lost
FlushError ==
  /\ Finish
  /\ buffered # <<>>
  /\ ioErr' = ioErr \cup {"reorder: flush"}
  /\ UNCHANGED outFile

(***************************************************************************)
(* The operator runs the tool again, on the output of a successful run     *)
(***************************************************************************)
Rerun ==
  /\ run = 1
  /\ pc = "exited"
  /\ exitCode = 0
  /\ run' = 2
  /\ input' = outFile
  /\ firstOut' = outFile
  /\ pc' = "parseOpen"
  /\ exitCode' = -1
  /\ diag' = ""
  /\ pos' = 0
  /\ graph' = EmptyMap
  /\ inDegree' = EmptyMap
  /\ tableOrder' = <<>>
  /\ currentTable' = ""
  /\ queue' = <<>>
  /\ sortedTables' = <<>>
  /\ ddlContent' = EmptyMap
  /\ currentDDL' = <<>>
  /\ wi' = 0
  /\ buffered' = <<>>
  /\ outFile' = <<>>
  /\ outCreated' = FALSE
  /\ handles' = {}
  /\ UNCHANGED ioErr

Next ==
  \/ ParseOpenFail
  \/ ParseOpen
  \/ ParseLine
  \/ ParseReadError
  \/ ParseReturn
  \/ Seed
  \/ SortStep
  \/ SortCycleError
  \/ SortReturn
  \/ ReorderOpenFail
  \/ ReorderOpen
  \/ ReorderLine
  \/ ReorderEOF
  \/ ReorderReadError
  \/ CreateFail
  \/ Create
  \/ WriteBlock
  \/ WriteError
  \/ Flush
  \/ FlushError
  \/ Rerun

Spec == Init /\ [][Next]_vars

\* topologicalSort is straight-line code in a running process: whichever of
\* its steps is possible is taken
SortSpec == Spec /\ WF_vars(Seed \/ SortStep \/ SortCycleError \/ SortReturn)

(***************************************************************************)
(* Vocabulary of the properties                                            *)
(***************************************************************************)
\* the edges parent -> child of a graph, as pairs
Edges(g) == UNION { { << p, g[p][k] >> : k \in 1..Len(g[p]) } : p \in DOMAIN g }

\* the transitive closure of a set of pairs
RECURSIVE TransitiveClosure(_)
TransitiveClosure(E) ==
  LET E2 == E \cup UNION { { << e[1], f[2] >> : f \in { h \in E : h[1] = e[2] } } :
                           e \in E }
  IN  IF E2 = E THEN E ELSE TransitiveClosure(E2)

\* some table reaches itself along one or more edges
HasCycle(g) == \E e \in TransitiveClosure(Edges(g)) : e[1] = e[2]

\* number of times table t occurs in the dependent lists of g
Occurrences(g, t) ==
  Cardinality(UNION { { << p, k >> : k \in { i \in 1..Len(g[p]) : g[p][i] = t } } :
                      p \in DOMAIN g })

\* the positions of the CREATE TABLE lines of a text
CreateLines(lines) == { i \in 1..Len(lines) : MatchCreateTable(lines[i]) # "" }

\* the text from its first CREATE TABLE line on
FromFirstCreate(lines) ==
  IF CreateLines(lines) = {} THEN <<>>
  ELSE SubSeq(lines, CHOOSE i \in CreateLines(lines) :
                       \A j \in CreateLines(lines) : i <= j, Len(lines))

\* the block that starts at CREATE TABLE line i: up to the next such line
BlockAt(lines, i) ==
  LET later == { j \in CreateLines(lines) : j > i }
      last == IF later = {} THEN Len(lines)
              ELSE (CHOOSE j \in later : \A k \in later : j <= k) - 1
  IN  SubSeq(lines, i, last)

\* the concatenation of the blocks that start at lines order[1], order[2], ...
RECURSIVE Concat(_, _)
Concat(lines, order) ==
  IF order = <<>> THEN <<>>
  ELSE BlockAt(lines, Head(order)) \o Concat(lines, Tail(order))

\* out consists of the blocks of lines, every one once, in some order
IsBlockPermutation(lines, out) ==
  \E order \in Orders(CreateLines(lines)) : Concat(lines, order) = out

\* the table names of the CREATE TABLE lines, in order of appearance
RECURSIVE Appearance(_)
Appearance(lines) ==
  IF lines = <<>> THEN <<>>
  ELSE LET t == MatchCreateTable(Head(lines))
       IN  (IF t = "" THEN <<>> ELSE << t >>) \o Appearance(Tail(lines))

\* no element occurs twice
Distinct(seq) == \A i, j \in 1..Len(seq) : seq[i] = seq[j] => i = j

\* topologicalSort has returned an order to processSQL
SortReturned ==
  \/ pc \in {"reorderOpen", "reorderScan", "create", "write"}
  \/ pc = "exited" /\ diag \in {"reorder: open", "reorder: create",
                                 "reorder: write", "reorder: ok"}

\* the process has ended with code 0 and the environment produced no failure
CleanSuccess == pc = "exited" /\ exitCode = 0 /\ ioErr = {}

(***************************************************************************)
(* C1: once topologicalSort has returned, every edge parent -> child of    *)
(* the graph has the parent at a strictly smaller index of the order than  *)
(* the child, whatever order seeded the queue; in the output file the      *)
(* parent's CREATE TABLE line comes before the child's, and after a run    *)
(* without failure both are there.                                         *)
(***************************************************************************)
C1_ParentBeforeChild ==
  /\ SortReturned =>
        \A e \in Edges(graph) :
          /\ \E i, j \in 1..Len(sortedTables) :
                i < j /\ sortedTables[i] = e[1] /\ sortedTables[j] = e[2]
          /\ \A i, j \in 1..Len(sortedTables) :
                sortedTables[i] = e[1] /\ sortedTables[j] = e[2] => i < j
  /\ \A e \in Edges(graph) :
        /\ \A i, j \in 1..Len(outFile) :
              /\ MatchCreateTable(outFile[i]) = e[1]
              /\ MatchCreateTable(outFile[j]) = e[2]
              => i < j
        /\ CleanSuccess =>
              \E i, j \in 1..Len(outFile) :
                /\ i < j
                /\ MatchCreateTable(outFile[i]) = e[1]
                /\ MatchCreateTable(outFile[j]) = e[2]

\* the child's block comes first in the source and second in the output
C1_Witness ==
  /\ CleanSuccess
  /\ run = 1
  /\ \E e \in Edges(graph) :
       /\ \E i, j \in 1..Len(input) :
             /\ i < j
             /\ MatchCreateTable(input[i]) = e[2]
             /\ MatchCreateTable(input[j]) = e[1]
       /\ \E i, j \in 1..Len(outFile) :
             /\ i < j
             /\ MatchCreateTable(outFile[i]) = e[1]
             /\ MatchCreateTable(outFile[j]) = e[2]

(***************************************************************************)
(* C2: when the graph has a directed cycle (a self reference included),    *)
(* topologicalSort returns no order: the process ends after the sort only  *)
(* by the cycle error, with code 1.                                        *)
(***************************************************************************)
C2_CycleNeverSorted ==
  HasCycle(graph) =>
    /\ ~SortReturned
    /\ (pc = "exited" /\ diag \notin {"parse: open", "parse: read"}) =>
          (diag = "sort: cycle" /\ exitCode = 1)

\* a table that references itself was refused after another had been ordered
C2_Witness ==
  /\ pc = "exited"
  /\ exitCode = 1
  /\ diag = "sort: cycle"
  /\ \E t \in DOMAIN graph : << t, t >> \in Edges(graph)
  /\ Len(sortedTables) > 0

(***************************************************************************)
(* C3: the cycle error is reported only when the graph has a directed      *)
(* cycle, also when a foreign key references a table no line creates.      *)
(***************************************************************************)
C3_CycleErrorMeansCycle ==
  (pc = "exited" /\ diag = "sort: cycle") => HasCycle(graph)

(***************************************************************************)
(* C4: after a run that ends with code 0 (and met no I/O failure) the      *)
(* output holds the blocks of the input, every block once, contiguous and  *)
(* with its lines in their order: it is the concatenation of the input's   *)
(* blocks in some order, also when two CREATE TABLE lines name one table.  *)
(***************************************************************************)
C4_SameBlocks == CleanSuccess => IsBlockPermutation(input, outFile)

(***************************************************************************)
(* C5 as stated: when a run succeeds with output O, a second run on O      *)
(* succeeds and its output has the blocks of O in the order of O, whatever *)
(* order seeds the queue in either run (runs that meet no I/O failure).    *)
(***************************************************************************)
C5_SameBlockOrder ==
  (run = 2 /\ pc = "exited" /\ ioErr = {}) => (exitCode = 0 /\ outFile = firstOut)

(***************************************************************************)
(* C5 amended: when a run succeeds with output O, a second run on O        *)
(* succeeds and its output consists of the blocks of O, every block once,  *)
(* each parent's block before its children's; the order of blocks that no  *)
(* dependency relates may differ from O's (runs that meet no I/O failure). *)
(***************************************************************************)
C5_SameBlocksAnyOrder ==
  (run = 2 /\ pc = "exited" /\ ioErr = {}) =>
    /\ exitCode = 0
    /\ IsBlockPermutation(firstOut, outFile)
    /\ \A e \in Edges(graph) :
          \E i, j \in 1..Len(outFile) :
            /\ i < j
            /\ MatchCreateTable(outFile[i]) = e[1]
            /\ MatchCreateTable(outFile[j]) = e[2]

\* the second run has written the blocks of O in another order
C5_Witness ==
  /\ run = 2
  /\ CleanSuccess
  /\ outFile # firstOut
  /\ Edges(graph) # {}

(***************************************************************************)
(* C6: when the tables of the source have distinct names and the sorted    *)
(* order is their order of appearance, a run without failure writes the    *)
(* source from its first CREATE TABLE line to its end, unchanged.          *)
(***************************************************************************)
C6_RoundTrip ==
  (/\ CleanSuccess
   /\ Distinct(Appearance(input))
   /\ sortedTables = Appearance(input))
  => outFile = FromFirstCreate(input)

\* a source with leading text, two blocks and a foreign key came out whole
C6_Witness ==
  /\ CleanSuccess
  /\ run = 1
  /\ Distinct(Appearance(input))
  /\ sortedTables = Appearance(input)
  /\ Len(sortedTables) = 2
  /\ Edges(graph) # {}
  /\ MatchCreateTable(input[1]) = ""
  /\ outFile = FromFirstCreate(input)

(***************************************************************************)
(* C7: a process that reports the cyclic dependency has ended with code 1  *)
(* and has not touched the output: the file was never created or           *)
(* truncated, nothing was written or buffered, no output handle exists.    *)
(***************************************************************************)
C7_CycleLeavesOutputUntouched ==
  diag = "sort: cycle" =>
    /\ pc = "exited"
    /\ exitCode = 1
    /\ ~outCreated
    /\ outFile = <<>>
    /\ buffered = <<>>
    /\ "reorderDDL.outputFile" \notin handles

\* a references b and b references a: refused, no output
C7_Witness ==
  /\ diag = "sort: cycle"
  /\ << "a", "b" >> \in Edges(graph)
  /\ << "b", "a" >> \in Edges(graph)
  /\ ~outCreated

(***************************************************************************)
(* C8: a process that met a read error in either scan, or a write or       *)
(* flush error on the output, ends with code 1, never with code 0.         *)
(***************************************************************************)
C8_IOErrorsFatal ==
  (/\ run = 1
   /\ pc = "exited"
   /\ ioErr \cap {"parse: read", "reorder: read", "reorder: write",
                  "reorder: flush"} # {})
  => exitCode = 1

(***************************************************************************)
(* C9: when the process ends, on any path, every file it opened has been   *)
(* closed by the program.                                                  *)
(***************************************************************************)
C9_HandlesClosedAtExit == pc = "exited" => handles = {}

(***************************************************************************)
(* C10: while parseDDL scans, and when it has finished, the in-degree of   *)
(* every table equals the number of times the table occurs in the          *)
(* dependent lists of the graph.                                           *)
(***************************************************************************)
C10_InDegreeCountsEdges ==
  (\/ pc \in {"parseScan", "seed"}
   \/ pc = "exited" /\ diag = "parse: read")
  => \A t \in DOMAIN inDegree : inDegree[t] = Occurrences(graph, t)

\* extraction is complete and a table declared two foreign keys to one parent
C10_Witness ==
  /\ pc = "seed"
  /\ \E t \in DOMAIN inDegree : \E p \in DOMAIN graph :
        /\ inDegree[t] = 2
        /\ p # t
        /\ graph[p] = << t, t >>

\* the elements of a sequence
Range(seq) == { seq[i] : i \in 1..Len(seq) }

(***************************************************************************)
(* C11: no in-degree is ever below zero, neither while parseDDL builds the *)
(* map nor in any state of topologicalSort, for cyclic and acyclic graphs  *)
(* and with repeated edges.                                                *)
(***************************************************************************)
C11_InDegreeNeverNegative == \A t \in DOMAIN inDegree : inDegree[t] >= 0

\* the sort has taken a table with two keys to one parent down to zero
C11_Witness ==
  /\ pc = "sortLoop"
  /\ \E t \in DOMAIN inDegree :
        /\ Occurrences(graph, t) = 2
        /\ inDegree[t] = 0
        /\ t \in Range(queue)

(***************************************************************************)
(* C12: no table occurs twice in the order and the queue taken together,   *)
(* and a table is in them only when its in-degree is zero: a table with k  *)
(* foreign keys to one parent is enqueued once, after the k-th decrement.  *)
(***************************************************************************)
C12_NoDuplicates ==
  /\ Distinct(sortedTables \o queue)
  /\ \A t \in Range(sortedTables \o queue) : t \in DOMAIN inDegree /\ inDegree[t] = 0

\* the parent is ordered and its twice-dependent child is queued once
C12_Witness ==
  /\ pc = "sortLoop"
  /\ \E p \in DOMAIN graph : \E t \in DOMAIN inDegree :
        /\ graph[p] = << t, t >>
        /\ p \in Range(sortedTables)
        /\ queue = << t >>

(***************************************************************************)
(* C13: a CREATE TABLE line for a name that already has a graph entry or   *)
(* an in-degree erases nothing: the name's dependent list stays as it was  *)
(* and its in-degree stays as it was (one more when the same line declares *)
(* a foreign key, which lines 59-68 count); and after every prefix of the  *)
(* lines each table named by a CREATE TABLE line has an entry in both      *)
(* maps.                                                                   *)
(***************************************************************************)
C13_RegistrationStep ==
  (pc = "parseScan" /\ pos' = pos + 1) =>
    LET line == TrimSpace(input[pos + 1])
        t == MatchCreateTable(line)
        fk == ContainsForeignKey(line) /\ MatchReferences(line) # ""
    IN  t # "" =>
          /\ t \in DOMAIN graph =>
                graph'[t] = IF fk /\ MatchReferences(line) = t
                              THEN Append(graph[t], t) ELSE graph[t]
          /\ t \in DOMAIN inDegree =>
                inDegree'[t] = inDegree[t] + (IF fk THEN 1 ELSE 0)

C13_Registered ==
  pc \in {"parseScan", "seed"} =>
    \A i \in 1..pos :
      LET t == MatchCreateTable(TrimSpace(input[i]))
      IN  t # "" => (t \in DOMAIN graph /\ t \in DOMAIN inDegree)

C13_RegistrationKeepsState == []C13_Registered /\ [][C13_RegistrationStep]_vars

\* the line just read creates a table again that has a dependent and a count
C13_Witness ==
  /\ pc = "parseScan"
  /\ pos > 1
  /\ LET t == MatchCreateTable(TrimSpace(input[pos]))
     IN  /\ t # ""
         /\ ~ContainsForeignKey(input[pos])
         /\ graph[t] # <<>>
         /\ inDegree[t] > 0

(***************************************************************************)
(* C14: a line that contains "foreign key" and matches REFERENCES, read    *)
(* while no current table is set, changes neither the graph nor the        *)
(* in-degree map nor the order of appearance, and the scan goes on.        *)
(***************************************************************************)
C14_OrphanStep ==
  (/\ pc = "parseScan"
   /\ pos' = pos + 1
   /\ currentTable = ""
   /\ MatchCreateTable(TrimSpace(input[pos + 1])) = ""
   /\ ContainsForeignKey(TrimSpace(input[pos + 1]))
   /\ MatchReferences(TrimSpace(input[pos + 1])) # "")
  => /\ UNCHANGED << graph, inDegree, tableOrder, currentTable >>
     /\ pc' = "parseScan"

C14_OrphanReferenceIgnored == [][C14_OrphanStep]_vars

\* two foreign-key lines were read before any table: nothing is recorded
C14_Witness ==
  /\ pc = "parseScan"
  /\ pos = 2
  /\ \A i \in 1..2 : /\ ContainsForeignKey(input[i])
                      /\ MatchReferences(input[i]) # ""
                      /\ MatchCreateTable(input[i]) = ""
  /\ DOMAIN graph = {}
  /\ DOMAIN inDegree = {}
  /\ tableOrder = <<>>

\* the tables of a text that declare a foreign key, cur being the table
\* whose block the text starts in
RECURSIVE DeclaresKey(_, _)
DeclaresKey(lines, cur) ==
  IF lines = <<>> THEN {}
  ELSE LET line == TrimSpace(Head(lines))
           c == IF MatchCreateTable(line) # "" THEN MatchCreateTable(line) ELSE cur
       IN  (IF ContainsForeignKey(line) /\ MatchReferences(line) # "" /\ c # ""
              THEN { c } ELSE {})
           \cup DeclaresKey(Tail(lines), c)

\* the tables of a text none of whose blocks declares a foreign key
NoKeyTables(lines) == Range(Appearance(lines)) \ DeclaresKey(lines, "")

\* the position of a table in a sequence that holds it
IndexOf(seq, t) == CHOOSE i \in 1..Len(seq) : seq[i] = t

\* topologicalSort has seeded its queue and processSQL has gone no further
SortSeeded ==
  \/ pc \in {"sortLoop", "reorderOpen"}
  \/ pc = "exited" /\ diag = "sort: cycle"

(***************************************************************************)
(* C15: a table that declares no foreign key, wherever it stands in the    *)
(* source, has in-degree 0 when extraction completes, is in the initial    *)
(* queue, and precedes in the order (and in the queue that feeds it) every *)
(* table that a decrement enqueued.                                        *)
(***************************************************************************)
C15_KeylessTablesFirst ==
  (pc = "seed" \/ SortSeeded) =>
    LET keyless == NoKeyTables(input)
        order == sortedTables \o queue
    IN  \A t \in keyless :
          /\ pc = "seed" => (t \in DOMAIN inDegree /\ inDegree[t] = 0)
          /\ SortSeeded =>
                /\ t \in Range(order)
                /\ \A u \in Range(order) \ keyless :
                      IndexOf(order, t) < IndexOf(order, u)

\* the keyless table stands last in the source and before the dependent
\* table in the order
C15_Witness ==
  /\ pc = "reorderOpen"
  /\ Len(sortedTables) = 3
  /\ sortedTables[2] \in NoKeyTables(input)
  /\ sortedTables[3] \notin NoKeyTables(input)
  /\ MatchCreateTable(input[Len(input)]) = sortedTables[2]

\* text is the beginning of one of the blocks of lines: it stands in lines
\* from a CREATE TABLE line on and holds no other CREATE TABLE line
IsBlockPrefix(lines, text) ==
  /\ \A k \in 2..Len(text) : MatchCreateTable(text[k]) = ""
  /\ \E i \in 1..(Len(lines) - Len(text) + 1) :
        /\ MatchCreateTable(lines[i]) # ""
        /\ text = SubSeq(lines, i, i + Len(text) - 1)

(***************************************************************************)
(* C16: no line that stands before the first CREATE TABLE line enters a    *)
(* block or the output: while the scan has met no CREATE TABLE line        *)
(* nothing is accumulated, every block begins with its CREATE TABLE line   *)
(* and continues as the source does, the output begins with a CREATE TABLE *)
(* line and is no longer than the source from its first CREATE TABLE line; *)
(* and a source without any CREATE TABLE line gives, in a run that meets   *)
(* no I/O failure, code 0 and an empty output file.                        *)
(***************************************************************************)
C16_LeadingLinesDropped ==
  /\ pc \in {"reorderScan", "create"} =>
        /\ (pc = "reorderScan" /\ CreateLines(SubSeq(input, 1, pos)) = {}) =>
              (currentDDL = <<>> /\ DOMAIN ddlContent = {})
        /\ currentDDL # <<>> => IsBlockPrefix(input, currentDDL)
        /\ \A t \in DOMAIN ddlContent :
              /\ ddlContent[t] # <<>>
              /\ MatchCreateTable(ddlContent[t][1]) = t
              /\ IsBlockPrefix(input, ddlContent[t])
  /\ outCreated =>
        /\ outFile \o buffered # <<>> =>
              MatchCreateTable((outFile \o buffered)[1]) # ""
        /\ Len(outFile \o buffered) <= Len(FromFirstCreate(input))
  /\ (pc = "exited" /\ ioErr = {} /\ CreateLines(input) = {}) =>
        (exitCode = 0 /\ outCreated /\ outFile = <<>>)

\* a foreign-key line stood before the only table: the output is the rest
C16_Witness ==
  /\ CleanSuccess
  /\ run = 1
  /\ Len(input) > 2
  /\ ContainsForeignKey(input[1])
  /\ MatchCreateTable(input[1]) = ""
  /\ MatchCreateTable(input[2]) # ""
  /\ outFile = SubSeq(input, 2, Len(input))

(***************************************************************************)
(* C17: topologicalSort terminates on every pair parseDDL produces: once   *)
(* it starts, it returns or takes the cycle exit, and the queue is empty   *)
(* then; it dequeues each table of the in-degree map at most once.         *)
(***************************************************************************)
C17_SortTerminates ==
  /\ (pc = "seed") ~> (pc \in {"reorderOpen", "exited"} /\ queue = <<>>)
  /\ [](Len(sortedTables) <= Cardinality(DOMAIN inDegree))

\* a cyclic pair: the sort has ended, in the cycle exit, having dequeued one
\* table of three
C17_Witness ==
  /\ pc = "exited"
  /\ diag = "sort: cycle"
  /\ queue = <<>>
  /\ Len(sortedTables) = 1
  /\ Cardinality(DOMAIN inDegree) = 3

(***************************************************************************)
(* C18: when the second scan reads the input as the first did (no read     *)
(* error cuts it short), the keys of the block map are the tables parseDDL *)
(* registered from CREATE TABLE lines, so every table of a returned order  *)
(* has a block and the output loop skips none.                             *)
(***************************************************************************)
C18_ScansAgree ==
  (pc \in {"create", "write"} /\ "reorder: read" \notin ioErr) =>
    /\ DOMAIN ddlContent = Range(tableOrder)
    /\ DOMAIN ddlContent = DOMAIN inDegree
    /\ \A i \in 1..Len(sortedTables) : sortedTables[i] \in DOMAIN ddlContent

\* the output loop has passed two tables, one created on an indented line,
\* and found a block for each
C18_Witness ==
  /\ pc = "write"
  /\ "reorder: read" \notin ioErr
  /\ wi = 2
  /\ Len(sortedTables) = 2
  /\ Range(sortedTables) = DOMAIN ddlContent
  /\ \E i \in 1..Len(input) :
        /\ input[i][1] \in WhiteSpace
        /\ MatchCreateTable(input[i]) \in Range(sortedTables)

\* the tables Kahn's algorithm can order: the least set that holds every
\* registered table all of whose parents it holds
RECURSIVE Orderable(_, _, _)
Orderable(g, tables, R) ==
  LET R2 == { t \in tables : \A e \in Edges(g) : e[2] = t => e[1] \in R }
  IN  IF R2 = R THEN R ELSE Orderable(g, tables, R2)

(***************************************************************************)
(* C19: the outcome of topologicalSort does not depend on the order that   *)
(* seeds the queue: whether it returns or takes the cycle exit, and the    *)
(* set of tables in its order, are functions of the extracted graph alone, *)
(* and two tables joined by a dependency path stand in the order of the    *)
(* path; only tables that no path joins can change places.                 *)
(***************************************************************************)
C19_OutcomeIndependentOfSeeding ==
  (pc = "reorderOpen" \/ (pc = "exited" /\ diag = "sort: cycle")) =>
    LET able == Orderable(graph, DOMAIN inDegree, {})
    IN  /\ Range(sortedTables) = able
        /\ (pc = "reorderOpen") <=> (Cardinality(able) = Cardinality(DOMAIN graph))
        /\ \A e \in TransitiveClosure(Edges(graph)) :
              (e[1] \in able /\ e[2] \in able) =>
                IndexOf(sortedTables, e[1]) < IndexOf(sortedTables, e[2])

\* the queue was seeded against the order of appearance while a third table
\* waited for its parent, and the sort took the cycle exit with those two
C19_Witness ==
  /\ pc = "exited"
  /\ diag = "sort: cycle"
  /\ Len(sortedTables) = 2
  /\ Len(tableOrder) = 3
  /\ sortedTables[1] = tableOrder[2]
  /\ sortedTables[2] = tableOrder[1]
  /\ Edges(graph) # {}

=============================================================================
